---- MODULE Spec2Model ----
(***************************************************************************)
(* State-machine model of the API gateway in src/app.py (configuration in  *)
(* src/config.py): bearer authentication, round-robin instance selection,  *)
(* the per-service pybreaker circuit breaker and the retrying dispatcher.  *)
(*                                                                         *)
(* Worker threads of the WSGI server run the request handlers              *)
(* concurrently; each thread's position in its handler is pc[p].  The      *)
(* module-level objects _service_iters and _circuit_breakers are shared.   *)
(* pybreaker.CircuitBreaker.call runs the wrapped function while holding   *)
(* the breaker's RLock, which is modelled by cb_lock.                      *)
(***************************************************************************)
EXTENDS Integers, Sequences, FiniteSets, TLC

(***************************************************************************)
(* Configuration (src/config.py).                                          *)
(***************************************************************************)
SERVICES ==
  [users  |-> <<"http://localhost:5001", "http://localhost:5003">>,
   orders |-> <<"http://localhost:5002">>]

RETRIES == 2

\* BACKOFF_FACTOR (0.3 s), in milliseconds.
BACKOFF_FACTOR_MS == 300

CB_FAIL_MAX == 5

CB_RESET_TIMEOUT == 30

(***************************************************************************)
(* Bounds of the model.                                                    *)
(***************************************************************************)
\* Requests accepted in one behaviour when they are served one at a time.
MaxRequests == 6

\* Requests accepted in one behaviour when two threads serve them.
MaxConcurrent == 3

\* Requests accepted in one behaviour that draws them from all of Requests
\* and follows the metric registry.
MaxFull == 3

\* The clock stops advancing past this many seconds.
MaxTime == 60

\* Worker threads serving requests concurrently.
Procs == {"w1", "w2"}

\* Amounts by which the wall clock is observed to advance.
Ticks == {CB_RESET_TIMEOUT \div 2, CB_RESET_TIMEOUT}

\* The order in which idle worker threads are handed requests.
Before(q, p) == q = "w1" /\ p = "w2"

ServiceNames == DOMAIN SERVICES

\* opened_at of a breaker that never opened (Python None).
None == -1

\* What the Authorization header of a request can hold:
\*   none        no header (or an empty one)
\*   nonbearer   a header that does not start with "Bearer "
\*   badsig      a bearer token jwt.decode rejects with InvalidTokenError
\*   decodeerror a bearer token on which jwt.decode raises another exception
\*   valid       a bearer token jwt.decode accepts
\*   noclaim     a bearer token jwt.decode accepts, whose payload has no
\*               tenant/profile field
Tokens == {"none", "nonbearer", "badsig", "decodeerror", "valid", "noclaim"}

Methods == {"GET", "POST"}

\* Status codes an upstream answers with.
UpstreamStatus == {200, 404, 500}

NoReq == [path |-> "-", service |-> "-", token |-> "none", method |-> "-"]

\* Inbound requests: /<service>/<path> for a configured or an unknown
\* service, /health and /metrics.
Requests ==
  [path : {"proxy"}, service : ServiceNames \cup {"ghost"}, token : Tokens,
   method : Methods]
    \cup [path : {"health", "metrics"}, service : {"-"}, token : {"none"},
          method : {"GET"}]

\* The status codes proxy returns for a registered service: those of the
\* upstream, 502 and 503.
Statuses == UpstreamStatus \cup {502, 503}

\* The label values (service, method, status) of REQUEST_COUNT.
Labels == ServiceNames \X Methods \X Statuses

\* results of a thread that is not in the health handler.
NoResults == [s \in ServiceNames |-> None]

\* A configuration in which a service has an empty instance list.
SERVICES_EMPTY == [SERVICES EXCEPT !.orders = <<>>]

\* What client.request does: it returns a response with a status code, or
\* raises httpx.TransportError (httpx.ReadTimeout is one).
NoOutcome == [kind |-> "none", status |-> 0]

Outcomes ==
  [kind : {"response"}, status : UpstreamStatus]
    \cup {[kind |-> "TransportError", status |-> 0]}

\* Locals of forward_request and call_upstream: attempt and instance of the
\* instance loop, sub (attempt of the retry loop), and as history the
\* instances call_upstream ran for (tried), the calls the breaker refused
\* (skipped), what client.request did last (last), the calls of
\* client.request that have ended (calls) and the sleep computed last in
\* the current call_upstream, in milliseconds (backoff).
NoFrame == [attempt |-> 0, instance |-> "-", sub |-> 0, tried |-> <<>>,
            skipped |-> 0, last |-> NoOutcome, calls |-> 0, backoff |-> 0]

VARIABLES
  service_iters,     \* [service -> index of the element cycle yields next]
  circuit_breakers,  \* [service -> [state, fail_counter, opened_at]]
  cb_lock,           \* [service -> thread holding the breaker's RLock, or "free"]
  now,               \* wall clock, seconds
  pc,                \* [thread -> position in its handler]
  req,               \* [thread -> the request it is serving]
  frame,             \* [thread -> locals of forward_request / call_upstream]
  resp,              \* [thread -> status of the response being returned, 0 = none]
  picks,             \* history: [service -> the last instances choose_instance
                     \*           returned, at most one more than it has]
  served,            \* history: number of requests received
  threads,           \* the worker threads the server runs
  config,            \* SERVICES as imported from config.py
  full,              \* whether requests are drawn from all of Requests and
                     \* the metric registry is followed
  REQUEST_COUNT,     \* the counter gateway_requests_total, per label values
  results            \* per thread: what its health handler has collected

vars == <<service_iters, circuit_breakers, cb_lock, now, pc, req, frame, resp,
          picks, served, threads, config, full, REQUEST_COUNT, results>>

\* What is fixed when the server starts.
setup == <<threads, config, full>>

shared == <<service_iters, circuit_breakers, cb_lock, setup>>

(***************************************************************************)
(* The state after the module is imported.                                 *)
(***************************************************************************)
Init ==
  /\ service_iters = [s \in ServiceNames |-> 0]
  /\ circuit_breakers =
       [s \in ServiceNames |->
          [state |-> "closed", fail_counter |-> 0, opened_at |-> None]]
  /\ cb_lock = [s \in ServiceNames |-> "free"]
  /\ now = 0
  /\ pc = [p \in Procs |-> "idle"]
  /\ req = [p \in Procs |-> NoReq]
  /\ frame = [p \in Procs |-> NoFrame]
  /\ resp = [p \in Procs |-> 0]
  /\ picks = [s \in ServiceNames |-> <<>>]
  /\ served = 0
  /\ REQUEST_COUNT = [k \in Labels |-> 0]
  /\ results = [p \in Procs |-> NoResults]
  /\ threads \in {{"w1"}, Procs}
  /\ config = SERVICES
  /\ full = FALSE

\* One thread, requests drawn from all of Requests.
InitFull ==
  /\ service_iters = [s \in ServiceNames |-> 0]
  /\ circuit_breakers =
       [s \in ServiceNames |->
          [state |-> "closed", fail_counter |-> 0, opened_at |-> None]]
  /\ cb_lock = [s \in ServiceNames |-> "free"]
  /\ now = 0
  /\ pc = [p \in Procs |-> "idle"]
  /\ req = [p \in Procs |-> NoReq]
  /\ frame = [p \in Procs |-> NoFrame]
  /\ resp = [p \in Procs |-> 0]
  /\ picks = [s \in ServiceNames |-> <<>>]
  /\ served = 0
  /\ REQUEST_COUNT = [k \in Labels |-> 0]
  /\ results = [p \in Procs |-> NoResults]
  /\ threads = {"w1"}
  /\ config = SERVICES
  /\ full = TRUE

\* One thread, a configuration with an empty instance list: the module is
\* imported as with any other configuration.
InitEmpty ==
  /\ service_iters = [s \in ServiceNames |-> 0]
  /\ circuit_breakers =
       [s \in ServiceNames |->
          [state |-> "closed", fail_counter |-> 0, opened_at |-> None]]
  /\ cb_lock = [s \in ServiceNames |-> "free"]
  /\ now = 0
  /\ pc = [p \in Procs |-> "idle"]
  /\ req = [p \in Procs |-> NoReq]
  /\ frame = [p \in Procs |-> NoFrame]
  /\ resp = [p \in Procs |-> 0]
  /\ picks = [s \in ServiceNames |-> <<>>]
  /\ served = 0
  /\ REQUEST_COUNT = [k \in Labels |-> 0]
  /\ results = [p \in Procs |-> NoResults]
  /\ threads = {"w1"}
  /\ config = SERVICES_EMPTY
  /\ full = FALSE

(***************************************************************************)
(* itertools.cycle: the position after one next().                         *)
(***************************************************************************)
\* Variant: the position sticks at the last element instead of wrapping.
cycle_next_nowrap(pos, n) == IF pos + 1 < n THEN pos + 1 ELSE pos

cycle_next(pos, n) == (pos + 1) % n

\* The history of picks, kept to the last n + 1 of them.
Remember(log, inst, n) ==
  LET all == Append(log, inst)
  IN  IF Len(all) > n + 1 THEN Tail(all) ELSE all

(***************************************************************************)
(* verify_jwt_from_header: TRUE when a payload is returned, FALSE when an  *)
(* exception is raised.                                                    *)
(***************************************************************************)
\* Variant: the "Bearer " prefix is not checked.
verify_jwt_any_scheme(token) == token \in {"nonbearer", "valid", "noclaim"}

verify_jwt_from_header(token) ==
  IF token \in {"none", "nonbearer"} THEN FALSE
  ELSE token \in {"valid", "noclaim"}

(***************************************************************************)
(* authenticate: the status it answers with, 0 when the request goes on.   *)
(* Paths that start with /health or /metrics are exempt; the paths of the  *)
(* services are not.                                                       *)
(***************************************************************************)
authenticate_status(r) ==
  IF r.path \in {"health", "metrics"} THEN 0
  ELSE IF r.token = "none" THEN 401
  ELSE IF verify_jwt_from_header(r.token) THEN 0
  ELSE 401

(***************************************************************************)
(* pybreaker.CircuitBreaker, as constructed for each service.              *)
(***************************************************************************)
\* CircuitOpenState.before_call: the call is let through when the reset
\* timeout has elapsed since the breaker opened.
\* Variant: the timeout must be exceeded, not reached.
reset_elapsed_strict(b, t) ==
  b.opened_at = None \/ t > b.opened_at + CB_RESET_TIMEOUT

reset_elapsed(b, t) ==
  b.opened_at = None \/ t >= b.opened_at + CB_RESET_TIMEOUT

\* CircuitClosedState.on_failure: the counter has reached fail_max.
\* Variant: the breaker tolerates fail_max failures and opens on the next.
threshold_exceeded(counter) == counter > CB_FAIL_MAX

threshold_reached(counter) == counter >= CB_FAIL_MAX

\* Variant: a breaker that opened before keeps its first opening time.
breaker_open_keep(b, t) ==
  [b EXCEPT !.state = "open", !.opened_at = IF @ = None THEN t ELSE @]

\* CircuitBreaker.open at time t.
breaker_open(b, t) == [b EXCEPT !.state = "open", !.opened_at = t]

\* Variant: a success closes a half-open breaker but keeps the counter.
on_success_keep_counter(b) ==
  [b EXCEPT !.state = IF @ = "half-open" THEN "closed" ELSE @]

\* _handle_success: the counter is reset; a half-open breaker closes.
on_success(b) ==
  [b EXCEPT !.fail_counter = 0,
            !.state = IF @ = "half-open" THEN "closed" ELSE @]

\* _handle_error at time t: the counter is incremented; a closed breaker
\* opens when the threshold is reached, a half-open one always.
on_failure(b, t) ==
  LET c == [b EXCEPT !.fail_counter = @ + 1]
  IN  IF b.state = "half-open" \/ threshold_reached(c.fail_counter)
      THEN breaker_open(c, t)
      ELSE c

(***************************************************************************)
(* call_upstream: the except clause of the retry loop catches this         *)
(* outcome of client.request.                                              *)
(***************************************************************************)
\* Variant: a 5xx response is retried like a transport error.
is_transient_or_5xx(o) == o.kind = "TransportError" \/ o.status >= 500

is_transient(o) == o.kind = "TransportError"

(***************************************************************************)
(* forward_request, the instance loop's handlers.  Each gives what the     *)
(* thread does next: the status it returns (0 when it does not return),    *)
(* its next position and its locals.                                       *)
(***************************************************************************)
\* Variant: a refused call is skipped and the loop goes on.
on_circuit_breaker_error_continue(f) ==
  [status |-> 0, pc |-> "forward", frame |-> [f EXCEPT !.attempt = @ + 1]]

\* except pybreaker.CircuitBreakerError: return 503.
on_circuit_breaker_error(f) ==
  [status |-> 503, pc |-> "metrics", frame |-> f]

\* except Exception: continue with the next instance.
on_exception(f) ==
  [status |-> 0, pc |-> "forward", frame |-> [f EXCEPT !.attempt = @ + 1]]

\* No exception: the upstream's response is mirrored.
on_response(f) ==
  [status |-> f.last.status, pc |-> "metrics", frame |-> f]

\* The number of requests a behaviour accepts.
Budget ==
  IF full THEN MaxFull
  ELSE IF threads = Procs THEN MaxConcurrent ELSE MaxRequests

\* The requests a behaviour draws from: all of them, or the GET requests
\* whose token, when accepted, has every field.
Offered(r) == full \/ (r.method = "GET" /\ r.token # "noclaim")

(***************************************************************************)
(* A request the rate limiter admits arrives and is handed to an idle       *)
(* worker thread, the first one when several are idle (the threads are     *)
(* interchangeable).                                                       *)
(***************************************************************************)
Receive(p) ==
  /\ pc[p] = "idle"
  /\ \A q \in Procs : pc[q] = "idle" => ~Before(q, p)
  /\ p \in threads
  /\ served < Budget
  /\ \E r \in Requests : Offered(r) /\ req' = [req EXCEPT ![p] = r]
  /\ pc' = [pc EXCEPT ![p] = "before_request"]
  /\ served' = served + 1
  /\ UNCHANGED <<shared, now, frame, resp, picks, REQUEST_COUNT, results>>

(***************************************************************************)
(* authenticate (before_request).                                          *)
(***************************************************************************)
authenticate(p) ==
  /\ pc[p] = "before_request"
  /\ LET st == authenticate_status(req[p])
     IN  /\ resp' = [resp EXCEPT ![p] = st]
         /\ pc' = [pc EXCEPT ![p] = IF st = 0 THEN "route" ELSE "respond"]
  /\ UNCHANGED <<shared, now, req, frame, picks, served, REQUEST_COUNT,
               results>>

(***************************************************************************)
(* proxy: an unknown service is answered 404, otherwise forward_request    *)
(* starts; it answers 502 when the service has no breaker.                 *)
(***************************************************************************)
proxy(p) ==
  /\ pc[p] = "route"
  /\ req[p].path = "proxy"
  /\ IF req[p].service \notin DOMAIN config
     THEN /\ resp' = [resp EXCEPT ![p] = 404]
          /\ pc' = [pc EXCEPT ![p] = "respond"]
     ELSE IF req[p].service \notin DOMAIN circuit_breakers
     THEN /\ resp' = [resp EXCEPT ![p] = 502]
          /\ pc' = [pc EXCEPT ![p] = "metrics"]
     ELSE /\ resp' = resp
          /\ pc' = [pc EXCEPT ![p] = "forward"]
  /\ frame' = [frame EXCEPT ![p] = NoFrame]
  /\ UNCHANGED <<shared, now, req, picks, served, REQUEST_COUNT, results>>

\* The instances of service s, as a set.
Instances(s) == {config[s][i] : i \in 1..Len(config[s])}

\* health: the number of instances of each service among those whose probe
\* answered 2xx.
healthy(ok) == [s \in ServiceNames |-> Cardinality(Instances(s) \cap ok)]

(***************************************************************************)
(* A health handler that would report an unhealthy service to its breaker. *)
(***************************************************************************)
health_reporting(p) ==
  /\ pc[p] = "route"
  /\ req[p].path = "health"
  /\ \E ok \in SUBSET UNION {Instances(s) : s \in ServiceNames} :
       /\ results' = [results EXCEPT ![p] = healthy(ok)]
       /\ circuit_breakers' =
            [s \in ServiceNames |->
               IF healthy(ok)[s] = 0
               THEN [circuit_breakers[s] EXCEPT !.fail_counter = 1]
               ELSE circuit_breakers[s]]
  /\ resp' = [resp EXCEPT ![p] = 200]
  /\ pc' = [pc EXCEPT ![p] = "respond"]
  /\ UNCHANGED <<service_iters, cb_lock, setup, now, req, frame, picks,
                 served, REQUEST_COUNT>>

(***************************************************************************)
(* health probes every instance of every service and answers 200 with the *)
(* healthy count per service, whatever the probes returned or raised; the  *)
(* metrics handler answers 200.  Neither touches the cursors or the        *)
(* breakers.                                                               *)
(***************************************************************************)
health(p) ==
  /\ pc[p] = "route"
  /\ req[p].path = "health"
  /\ \E ok \in SUBSET UNION {Instances(s) : s \in ServiceNames} :
       results' = [results EXCEPT ![p] = healthy(ok)]
  /\ resp' = [resp EXCEPT ![p] = 200]
  /\ pc' = [pc EXCEPT ![p] = "respond"]
  /\ UNCHANGED <<shared, now, req, frame, picks, served, REQUEST_COUNT>>

metrics(p) ==
  /\ pc[p] = "route"
  /\ req[p].path = "metrics"
  /\ resp' = [resp EXCEPT ![p] = 200]
  /\ pc' = [pc EXCEPT ![p] = "respond"]
  /\ UNCHANGED <<shared, now, req, frame, picks, served, REQUEST_COUNT,
               results>>

(***************************************************************************)
(* forward_request, head of the instance loop: choose_instance, or 502     *)
(* when range(len(instances)) is exhausted.                                *)
(***************************************************************************)
choose_instance(p) ==
  /\ pc[p] = "forward"
  /\ LET s == req[p].service
         n == Len(config[s])
     IN  IF frame[p].attempt < n
         THEN /\ frame' = [frame EXCEPT
                             ![p].instance = config[s][service_iters[s] + 1]]
              /\ service_iters' =
                   [service_iters EXCEPT ![s] = cycle_next(@, n)]
              /\ picks' = [picks EXCEPT
                             ![s] = Remember(@, config[s][service_iters[s] + 1], n)]
              /\ pc' = [pc EXCEPT ![p] = "call"]
              /\ resp' = resp
         ELSE /\ resp' = [resp EXCEPT ![p] = 502]
              /\ pc' = [pc EXCEPT ![p] = "metrics"]
              /\ UNCHANGED <<frame, service_iters, picks>>
  /\ UNCHANGED <<circuit_breakers, cb_lock, now, req, served, setup,
               REQUEST_COUNT, results>>

\* Variant: one lock for the breakers of all services.
lock_free_global(s) == \A t \in ServiceNames : cb_lock[t] = "free"

\* Variant: CircuitBreaker.call without its lock.
lock_free_always(s) == TRUE

\* CircuitBreaker.call, with self._lock: the lock of the service's breaker
\* can be taken.
lock_free(s) == cb_lock[s] = "free"

(***************************************************************************)
(* call_upstream(instance) enters the breaker: CircuitBreaker.call takes   *)
(* the lock; an open breaker whose timeout has not elapsed raises          *)
(* CircuitBreakerError (answered 503), one whose timeout has elapsed       *)
(* becomes half-open and lets the call through.                            *)
(***************************************************************************)
breaker_call(p) ==
  /\ pc[p] = "call"
  /\ LET s == req[p].service
         b == circuit_breakers[s]
     IN  /\ lock_free(s)
         /\ IF b.state = "open" /\ ~reset_elapsed(b, now)
            THEN LET r == on_circuit_breaker_error(
                               [frame[p] EXCEPT !.skipped = @ + 1])
                 IN  /\ resp' = [resp EXCEPT ![p] = r.status]
                     /\ pc' = [pc EXCEPT ![p] = r.pc]
                     /\ frame' = [frame EXCEPT ![p] = r.frame]
                     /\ UNCHANGED <<circuit_breakers, cb_lock>>
            ELSE /\ circuit_breakers' =
                      [circuit_breakers EXCEPT
                         ![s].state = IF @ = "open" THEN "half-open" ELSE @]
                 /\ cb_lock' = [cb_lock EXCEPT ![s] = p]
                 /\ frame' = [frame EXCEPT
                                ![p].sub = 0,
                                ![p].backoff = 0,
                                ![p].last = NoOutcome,
                                ![p].tried = Append(@, frame[p].instance)]
                 /\ pc' = [pc EXCEPT ![p] = "request"]
                 /\ resp' = resp
  /\ UNCHANGED <<service_iters, now, req, picks, served, setup,
               REQUEST_COUNT, results>>

\* backoff = BACKOFF_FACTOR * (2 ** attempt), in milliseconds.
backoff(attempt) == BACKOFF_FACTOR_MS * (2 ^ attempt)

(***************************************************************************)
(* client.request ends.  A response is returned by call_upstream: the      *)
(* breaker records a success, releases its lock, and forward_request       *)
(* mirrors the response.  On a transport error the thread logs and sleeps  *)
(* for the backoff, still inside the breaker.                              *)
(***************************************************************************)
client_request(p) ==
  /\ pc[p] = "request"
  /\ \E o \in Outcomes :
       LET s == req[p].service
           f == [frame[p] EXCEPT !.last = o, !.calls = @ + 1]
           r == on_response([f EXCEPT !.backoff = 0])
       IN  IF is_transient(o)
           THEN /\ frame' = [frame EXCEPT
                               ![p] = [f EXCEPT !.backoff = backoff(f.sub)]]
                /\ pc' = [pc EXCEPT ![p] = "sleep"]
                /\ UNCHANGED <<circuit_breakers, cb_lock, resp>>
           ELSE /\ circuit_breakers' =
                     [circuit_breakers EXCEPT ![s] = on_success(@)]
                /\ cb_lock' = [cb_lock EXCEPT ![s] = "free"]
                /\ frame' = [frame EXCEPT ![p] = r.frame]
                /\ pc' = [pc EXCEPT ![p] = r.pc]
                /\ resp' = [resp EXCEPT ![p] = r.status]
  /\ UNCHANGED <<service_iters, now, req, picks, served, setup,
               REQUEST_COUNT, results>>

\* Variant: one sub-attempt more.
more_retries_one_more(sub) == sub <= RETRIES

\* for attempt in range(RETRIES + 1): another sub-attempt follows.
more_retries(sub) == sub < RETRIES

(***************************************************************************)
(* time.sleep(backoff) returns: the next sub-attempt, or after the last    *)
(* one raise last_exc, which the breaker records as a failure; a breaker   *)
(* that opens raises CircuitBreakerError in its place, otherwise last_exc  *)
(* reaches forward_request.                                                *)
(***************************************************************************)
wake(p) ==
  /\ pc[p] = "sleep"
  /\ LET s == req[p].service
         b == on_failure(circuit_breakers[s], now)
         f == [frame[p] EXCEPT !.backoff = 0]
         r == IF b.state = "open"
              THEN on_circuit_breaker_error(f)
              ELSE on_exception(f)
     IN  IF more_retries(frame[p].sub)
         THEN /\ frame' = [frame EXCEPT ![p].sub = @ + 1]
              /\ pc' = [pc EXCEPT ![p] = "request"]
              /\ UNCHANGED <<circuit_breakers, cb_lock, resp>>
         ELSE /\ circuit_breakers' = [circuit_breakers EXCEPT ![s] = b]
              /\ cb_lock' = [cb_lock EXCEPT ![s] = "free"]
              /\ resp' = [resp EXCEPT ![p] = r.status]
              /\ pc' = [pc EXCEPT ![p] = r.pc]
              /\ frame' = [frame EXCEPT ![p] = r.frame]
  /\ UNCHANGED <<service_iters, now, req, picks, served, setup,
               REQUEST_COUNT, results>>

\* REQUEST_COUNT.labels(...).inc() adding two.
labels_inc_twice(counter, key) == [counter EXCEPT ![key] = @ + 2]

\* REQUEST_COUNT.labels(service, method, status).inc()
labels_inc(counter, key) == [counter EXCEPT ![key] = @ + 1]

(***************************************************************************)
(* proxy, after forward_request: the request counter is incremented; an    *)
(* exception raised while doing so is swallowed.  The registry is a sink   *)
(* no handler but /metrics reads, and its content is followed only in the  *)
(* behaviours with full set.                                               *)
(***************************************************************************)
record_metric(p) ==
  /\ pc[p] = "metrics"
  /\ \E raised \in BOOLEAN :
       REQUEST_COUNT' =
         IF full /\ ~raised
         THEN labels_inc(REQUEST_COUNT,
                         <<req[p].service, req[p].method, resp[p]>>)
         ELSE REQUEST_COUNT
  /\ pc' = [pc EXCEPT ![p] = "respond"]
  /\ UNCHANGED <<shared, now, req, frame, resp, picks, served, results>>

(***************************************************************************)
(* The response is sent and the thread is idle again.                      *)
(***************************************************************************)
respond(p) ==
  /\ pc[p] = "respond"
  /\ pc' = [pc EXCEPT ![p] = "idle"]
  /\ req' = [req EXCEPT ![p] = NoReq]
  /\ frame' = [frame EXCEPT ![p] = NoFrame]
  /\ resp' = [resp EXCEPT ![p] = 0]
  /\ results' = [results EXCEPT ![p] = NoResults]
  /\ UNCHANGED <<shared, now, picks, served, REQUEST_COUNT>>

(***************************************************************************)
(* Time passes.  Only an open breaker reads the clock, and it reads the     *)
(* time since it opened, so the clock is advanced only while a breaker is  *)
(* open.                                                                   *)
(***************************************************************************)
Tick ==
  /\ \E s \in ServiceNames : circuit_breakers[s].state = "open"
  /\ \E d \in Ticks : now + d <= MaxTime /\ now' = now + d
  /\ UNCHANGED <<shared, pc, req, frame, resp, picks, served,
               REQUEST_COUNT, results>>

Next ==
  \/ Tick
  \/ \E p \in Procs :
       \/ Receive(p)
       \/ authenticate(p)
       \/ proxy(p)
       \/ health(p)
       \/ metrics(p)
       \/ choose_instance(p)
       \/ breaker_call(p)
       \/ client_request(p)
       \/ wake(p)
       \/ record_metric(p)
       \/ respond(p)

Spec == Init /\ [][Next]_vars

SpecFull == InitFull /\ [][Next]_vars

\* The steps of forward_request in thread p.
forward_request(p) ==
  \/ choose_instance(p)
  \/ breaker_call(p)
  \/ client_request(p)
  \/ wake(p)

\* A thread inside forward_request goes on: it is scheduled, client.request
\* ends by its timeout at the latest, time.sleep returns, and the breaker's
\* lock is handed over once it is released.
SpecFair == Spec /\ \A p \in Procs : WF_vars(forward_request(p))

SpecEmpty == InitEmpty /\ [][Next]_vars

(***************************************************************************)
(* Properties.                                                             *)
(***************************************************************************)
\* The instance configured after inst, the first one after the last.
Successor(s, inst) ==
  LET i == CHOOSE k \in 1..Len(SERVICES[s]) : SERVICES[s][k] = inst
  IN  SERVICES[s][(i % Len(SERVICES[s])) + 1]

Breaker(p) == circuit_breakers[req[p].service]

Returned(p) == pc[p] \in {"metrics", "respond"}

\* The breaker of s is open and its reset timeout has not elapsed.
StillOpen(s) ==
  /\ circuit_breakers[s].state = "open"
  /\ now < circuit_breakers[s].opened_at + CB_RESET_TIMEOUT

\* C1: the instances choose_instance returns for a service follow the
\* configured order: the first call returns the first instance, each later
\* call the successor of the one before, so that N consecutive calls return
\* every instance once and the (N+1)-th returns the first of them again; the
\* cursor always stands one position after the last instance returned.
RoundRobinOrder ==
  \A s \in ServiceNames :
    LET n == Len(SERVICES[s])
        log == picks[s]
    IN  /\ Len(log) <= n => \A k \in 1..Len(log) : log[k] = SERVICES[s][k]
        /\ \A k \in 1..(Len(log) - 1) : log[k + 1] = Successor(s, log[k])
        /\ Len(log) = n + 1 =>
             /\ {log[k] : k \in 1..n} = Instances(s)
             /\ log[n + 1] = log[1]
        /\ IF log = <<>>
           THEN service_iters[s] = 0
           ELSE SERVICES[s][service_iters[s] + 1] = Successor(s, log[Len(log)])

\* Requests served one at a time have made N + 1 consecutive picks of the
\* two-instance service.
RoundRobinWrapped ==
  /\ threads = {"w1"}
  /\ picks["users"] = <<SERVICES["users"][1], SERVICES["users"][2],
                        SERVICES["users"][1]>>

\* C2: within one forward_request no instance is attempted twice.
NoInstanceTwice ==
  \A p \in Procs :
    \A i, j \in 1..Len(frame[p].tried) :
      i # j => frame[p].tried[i] # frame[p].tried[j]

\* C3: a breaker that has recorded CB_FAIL_MAX failures is not closed, and is
\* open until its reset timeout has elapsed; while it is open and the timeout
\* has not elapsed no thread is inside call_upstream for the service (no
\* request is in flight and none is being retried), and a call it refused
\* was answered 503 without the instance being tried.
OpenBreakerRejects ==
  /\ \A s \in ServiceNames :
       LET b == circuit_breakers[s]
       IN  /\ b.fail_counter >= CB_FAIL_MAX =>
                /\ b.state # "closed"
                /\ b.opened_at # None
                /\ now < b.opened_at + CB_RESET_TIMEOUT => b.state = "open"
           /\ StillOpen(s) =>
                \A p \in Procs :
                  req[p].service = s => pc[p] \notin {"request", "sleep"}
  /\ \A p \in Procs :
       frame[p].skipped > 0 =>
         /\ Returned(p)
         /\ resp[p] = 503
         /\ frame[p].skipped = 1
         /\ Len(frame[p].tried) = frame[p].attempt

\* A call was refused by a breaker that had counted CB_FAIL_MAX failures.
CallRefused ==
  \E p \in Procs :
    /\ pc[p] = "metrics"
    /\ frame[p].skipped = 1
    /\ frame[p].tried = <<>>
    /\ resp[p] = 503
    /\ StillOpen(req[p].service)
    /\ Breaker(p).fail_counter = CB_FAIL_MAX

\* C4: a call that reaches an open breaker once the reset timeout has elapsed
\* is let through with the breaker half-open, and a response to a call made
\* while the breaker is half-open leaves it closed with a zero counter.
HalfOpenProbe ==
  [][\A p \in Procs :
       /\ ( /\ pc[p] = "call"
            /\ pc'[p] # "call"
            /\ Breaker(p).state = "open"
            /\ now >= Breaker(p).opened_at + CB_RESET_TIMEOUT )
          => /\ pc'[p] = "request"
             /\ Breaker(p)'.state = "half-open"
             /\ frame'[p].tried = Append(frame[p].tried, frame[p].instance)
       /\ ( /\ pc[p] = "request"
            /\ Breaker(p).state = "half-open"
            /\ pc'[p] \notin {"request", "sleep"} )
          => /\ Breaker(p)'.state = "closed"
             /\ Breaker(p)'.fail_counter = 0
             /\ resp'[p] \in UpstreamStatus]_vars

\* A probe succeeded: a breaker that was open is closed with a zero counter,
\* and the thread whose call was the probe holds the upstream's response.
ProbeClosedBreaker ==
  \E p \in Procs :
    /\ pc[p] = "metrics"
    /\ frame[p].last.kind = "response"
    /\ Breaker(p).state = "closed"
    /\ Breaker(p).fail_counter = 0
    /\ Breaker(p).opened_at # None
    /\ now >= Breaker(p).opened_at + CB_RESET_TIMEOUT

\* C5: a half-open breaker whose probe fails is open again with the time of
\* the failure as its opening time, and a call reaching an open breaker less
\* than CB_RESET_TIMEOUT after its opening time is refused with 503.
FailedProbeRestartsTimer ==
  [][/\ \A s \in ServiceNames :
          ( /\ circuit_breakers[s].state = "half-open"
            /\ circuit_breakers'[s].state # "half-open"
            /\ circuit_breakers'[s].fail_counter # 0 )
          => /\ circuit_breakers'[s].state = "open"
             /\ circuit_breakers'[s].opened_at = now
     /\ \A p \in Procs :
          ( /\ pc[p] = "call"
            /\ pc'[p] # "call"
            /\ StillOpen(req[p].service) )
          => /\ pc'[p] = "metrics"
             /\ resp'[p] = 503
             /\ frame'[p].tried = frame[p].tried
             /\ circuit_breakers' = circuit_breakers]_vars

\* A probe failed and a later call was refused: more than CB_FAIL_MAX
\* failures are counted, which only a failed probe does, and the call is
\* refused at a time when the timeout since the first opening has elapsed.
RefusedAfterFailedProbe ==
  \E p \in Procs :
    /\ pc[p] = "metrics"
    /\ frame[p].skipped = 1
    /\ resp[p] = 503
    /\ Breaker(p).fail_counter > CB_FAIL_MAX
    /\ StillOpen(req[p].service)
    /\ now > Breaker(p).opened_at
    /\ now >= CB_RESET_TIMEOUT

\* C6: a forward_request whose call the open breaker refused answers 503,
\* never 502.
RefusedIsCircuitOpen ==
  \A p \in Procs :
    frame[p].skipped > 0 =>
      /\ resp[p] # 502
      /\ Returned(p) => resp[p] = 503

\* The breaker refused the first call of a forward_request, which returned
\* 503 without trying an instance.
RefusedAnswered503 ==
  \E p \in Procs :
    /\ pc[p] = "respond"
    /\ frame[p].skipped > 0
    /\ frame[p].tried = <<>>
    /\ resp[p] = 503

\* C7: a forward_request returns 502 or 503 only after every instance of the
\* service was attempted or skipped.
GatewayErrorAfterAllInstances ==
  \A p \in Procs :
    (Returned(p) /\ resp[p] \in {502, 503} /\ req[p].service \in ServiceNames)
      => Len(frame[p].tried) + frame[p].skipped = Len(SERVICES[req[p].service])

\* C8: when client.request returns a response, whatever its status, the
\* thread leaves forward_request with that status as its response, tries no
\* further instance, the breaker's failure counter does not grow, and the
\* thread makes no further attempt afterwards.
ResponseEndsDispatch ==
  [][\A p \in Procs :
       /\ ( /\ pc[p] = "request"
            /\ frame'[p].last.kind = "response"
            /\ frame[p].last.kind # "response" )
          => /\ pc'[p] = "metrics"
             /\ resp'[p] = frame'[p].last.status
             /\ frame'[p].tried = frame[p].tried
             /\ frame'[p].attempt = frame[p].attempt
             /\ Breaker(p)'.fail_counter <= Breaker(p).fail_counter
             /\ Breaker(p)'.state # "open"
       /\ frame[p].last.kind = "response" =>
            /\ pc[p] \in {"metrics", "respond"}
            /\ pc'[p] \in {"metrics", "respond", "idle"}
            /\ pc'[p] # "idle" => resp'[p] = frame[p].last.status]_vars

\* An upstream's 500 response is being mirrored.
ErrorStatusMirrored ==
  \E p \in Procs :
    /\ pc[p] = "respond"
    /\ frame[p].last = [kind |-> "response", status |-> 500]
    /\ resp[p] = 500
    /\ Breaker(p).fail_counter = 0

\* C9: in a forward_request whose first instance failed with transport
\* errors, the failure is counted by the service's breaker, and when the
\* second, different instance then returns a response, that response is
\* returned after one move to another instance, with the breaker closed and
\* its failure counter zero.
SecondInstanceAnswers ==
  [][\A p \in Procs :
       /\ ( /\ pc[p] = "sleep"
            /\ pc'[p] = "forward"
            /\ Breaker(p).state = "closed" )
          => /\ Breaker(p)'.fail_counter = Breaker(p).fail_counter + 1
             /\ Breaker(p)'.state = "closed"
             /\ frame'[p].attempt = frame[p].attempt + 1
       /\ ( /\ pc[p] = "request"
            /\ pc'[p] = "metrics"
            /\ Len(frame[p].tried) = 2
            /\ frame[p].tried[1] # frame[p].tried[2] )
          => /\ resp'[p] \in UpstreamStatus
             /\ frame'[p].attempt = 1
             /\ frame'[p].instance = frame[p].tried[2]
             /\ Breaker(p)'.state = "closed"
             /\ Breaker(p)'.fail_counter = 0]_vars

\* Requests are served one at a time; the first instance of users failed,
\* the second answered 200, and the breaker is closed with a zero counter.
SecondInstanceAnswered ==
  /\ threads = {"w1"}
  /\ pc["w1"] = "metrics"
  /\ req["w1"].service = "users"
  /\ frame["w1"].tried = SERVICES["users"]
  /\ frame["w1"].attempt = 1
  /\ resp["w1"] = 200
  /\ circuit_breakers["users"] =
       [state |-> "closed", fail_counter |-> 0, opened_at |-> None]

BadToken(r) == r.path = "proxy" /\ r.token \notin {"valid", "noclaim"}

\* C10: a thread serving a request to a proxied path without a valid bearer
\* token answers 401 from authenticate and never enters proxy or
\* forward_request; its steps leave every cursor and every breaker as they
\* were.
BadTokenRejected ==
  [][\A p \in Procs :
       BadToken(req[p]) =>
         /\ pc[p] \in {"before_request", "respond"}
         /\ frame[p] = NoFrame
         /\ pc[p] = "respond" => resp[p] = 401
         /\ pc'[p] # pc[p] =>
              /\ pc'[p] \in {"respond", "idle"}
              /\ pc'[p] = "respond" => resp'[p] = 401
              /\ service_iters' = service_iters
              /\ circuit_breakers' = circuit_breakers
              /\ cb_lock' = cb_lock
              /\ picks' = picks]_vars

\* A request with a bearer token that fails verification is being answered
\* 401 while a breaker has counted failures and a cursor has advanced.
BadTokenAnswered401 ==
  \E p \in Procs :
    /\ pc[p] = "respond"
    /\ req[p] = [path |-> "proxy", service |-> "users", token |-> "badsig",
                 method |-> "GET"]
    /\ resp[p] = 401
    /\ circuit_breakers["users"].fail_counter > 0
    /\ service_iters["users"] = 1

\* A request whose token verifies while its payload has no tenant/profile
\* field.
MissingClaim(r) == r.path = "proxy" /\ r.token = "noclaim"

\* C11: a request whose token verifies but whose payload lacks the
\* tenant/profile field fails authentication: its thread answers 401 from
\* authenticate and never reaches proxy or forward_request.
MissingClaimRejected ==
  \A p \in Procs :
    MissingClaim(req[p]) =>
      /\ pc[p] \in {"before_request", "respond"}
      /\ pc[p] = "respond" => resp[p] = 401

\* C12: no request is handled while some registered service has an empty
\* instance list.
NoRequestWithEmptyService ==
  \A p \in Procs :
    pc[p] # "idle" => \A s \in DOMAIN config : Len(config[s]) >= 1

\* A thread is serving a request to /health.
InHealth(p) == req[p].path = "health" /\ pc[p] # "idle"

\* A step of thread p.
StepOf(p) == pc'[p] # pc[p]

\* C13: no step of a thread serving /health, whatever its probes return,
\* changes a breaker, a breaker lock or a round-robin cursor; a breaker
\* changes only in a step of a thread that is inside forward_request for
\* that breaker's service.
HealthLeavesBreakers ==
  [][/\ \A p \in Procs :
          InHealth(p) /\ StepOf(p) =>
            /\ circuit_breakers' = circuit_breakers
            /\ cb_lock' = cb_lock
            /\ service_iters' = service_iters
     /\ \A s \in ServiceNames :
          circuit_breakers'[s] # circuit_breakers[s] =>
            \E p \in Procs :
              /\ StepOf(p)
              /\ req[p].path = "proxy"
              /\ req[p].service = s
              /\ pc[p] \in {"call", "request", "sleep"}]_vars

\* A health handler has found no healthy instance of users, whose breaker is
\* closed, and a healthy instance of orders, whose breaker is open.
HealthDisagreesWithBreakers ==
  \E p \in Procs :
    /\ pc[p] = "respond"
    /\ req[p].path = "health"
    /\ results[p] = [users |-> 0, orders |-> 1]
    /\ circuit_breakers["users"].state = "closed"
    /\ circuit_breakers["orders"].state = "open"

\* The label values of the request thread p is serving and of the response
\* forward_request returned.
LabelsOf(p) == <<req[p].service, req[p].method, resp[p]>>

RefusalConsultsEveryInstance ==
  \A p \in Procs :
    (Returned(p) /\ frame[p].skipped > 0) =>
      /\ resp[p] = 503
      /\ Len(frame[p].tried) + frame[p].skipped = Len(config[req[p].service])

\* C16: a thread sleeps for backoff only when another sub-attempt on the
\* same instance follows, and the sleep after sub-attempt k (counted from 0)
\* lasts BACKOFF_FACTOR * 2^k.
SleepOnlyBetweenSubAttempts ==
  \A p \in Procs :
    pc[p] = "sleep" =>
      /\ frame[p].sub < RETRIES
      /\ frame[p].backoff = BACKOFF_FACTOR_MS * (2 ^ frame[p].sub)

\* Thread p is inside CircuitBreaker.call for service s, sleeping for
\* backoff or waiting for client.request.
InBreaker(p, s) ==
  /\ req[p].path = "proxy"
  /\ req[p].service = s
  /\ pc[p] \in {"request", "sleep"}

\* C17: while a thread sleeps for backoff or waits for client.request, a
\* concurrent request to the same service that has chosen its instance can
\* enter the breaker: no lock it needs is held.
SleepHoldsNoLock ==
  \A p \in Procs : \A q \in Procs \ {p} :
    \A s \in ServiceNames :
      (InBreaker(p, s) /\ pc[q] = "call" /\ req[q].service = s)
        => lock_free(s)

\* Thread p is serving a request to a registered service.
Dispatching(p) == req[p].path = "proxy" /\ req[p].service \in ServiceNames

\* The threads inside CircuitBreaker.call for service s.
InFlight(s) == {p \in Procs : InBreaker(p, s)}

\* C18 as stated: at most one call is inside a service's breaker, and the
\* failure counter never passes CB_FAIL_MAX.
CounterNeverPastFailMax ==
  \A s \in ServiceNames :
    /\ Cardinality(InFlight(s)) <= 1
    /\ circuit_breakers[s].fail_counter <= CB_FAIL_MAX

\* C18: in every state and for every interleaving at most one thread is
\* inside the breaker of a service, probe of a half-open breaker included,
\* and that thread holds the breaker's lock.  A step adds at most one to
\* the failure counter; failures recorded while the breaker is closed never
\* take it past CB_FAIL_MAX; it passes CB_FAIL_MAX only by the failure of a
\* half-open breaker's probe, which opens the breaker again; and an open
\* breaker is not opened a second time.
BreakerCallsSerialized ==
  [][\A s \in ServiceNames :
       LET b == circuit_breakers[s]
           c == circuit_breakers'[s]
       IN  /\ Cardinality(InFlight(s)) <= 1
           /\ \A p \in InFlight(s) : cb_lock[s] = p
           /\ c.fail_counter <= b.fail_counter + 1
           /\ b.state = "closed" => c.fail_counter <= CB_FAIL_MAX
           /\ (c.fail_counter > CB_FAIL_MAX /\ c.fail_counter > b.fail_counter)
                 => b.state = "half-open" /\ c.state = "open"
           /\ b.state = "open" /\ c.state = "open" =>
                 c.opened_at = b.opened_at
           /\ b.state = "half-open" => Cardinality(InFlight(s)) = 1]_vars

\* With two threads serving requests to the same service, one is the probe
\* of the half-open breaker, sleeping after a failed sub-attempt and
\* holding the breaker's lock, and the other has been answered 503 by the
\* failure that opened the breaker.
ProbeInFlightAlone ==
  \E p \in Procs : \E q \in Procs \ {p} : \E s \in ServiceNames :
    /\ InFlight(s) = {p}
    /\ pc[p] = "sleep"
    /\ circuit_breakers[s].state = "half-open"
    /\ cb_lock[s] = p
    /\ Dispatching(q)
    /\ req[q].service = s
    /\ pc[q] = "metrics"
    /\ resp[q] = 503

\* C19: a step of a thread serving a request to a service leaves the
\* cursor, the breaker, the breaker lock and the pick history of every other
\* service unchanged; and the breaker of a service can be entered whenever
\* no thread is inside that breaker, whatever the threads serving other
\* services are doing.
ServicesIndependent ==
  [][/\ \A p \in Procs :
          Dispatching(p) /\ StepOf(p) =>
            \A t \in ServiceNames \ {req[p].service} :
              /\ service_iters'[t] = service_iters[t]
              /\ circuit_breakers'[t] = circuit_breakers[t]
              /\ cb_lock'[t] = cb_lock[t]
              /\ picks'[t] = picks[t]
     /\ \A t \in ServiceNames : InFlight(t) = {} => lock_free(t)]_vars

\* One thread sleeps for backoff inside the breaker of users while the
\* other, which arrived later, is inside the breaker of orders.
OtherServiceProceeds ==
  /\ InBreaker("w1", "users")
  /\ pc["w1"] = "sleep"
  /\ InBreaker("w2", "orders")
  /\ pc["w2"] = "request"

\* The bounds of a dispatch: instance attempts, sub-attempts of the current
\* instance, calls of client.request.
DispatchBounded ==
  \A p \in Procs :
    Dispatching(p) =>
      LET n == Len(config[req[p].service])
      IN  /\ frame[p].attempt <= n
          /\ Len(frame[p].tried) + frame[p].skipped <= n
          /\ frame[p].sub <= RETRIES
          /\ frame[p].calls <= n * (RETRIES + 1)

\* C20: a dispatch makes at most N instance attempts, at most RETRIES + 1
\* sub-attempts per instance and at most N * (RETRIES + 1) upstream calls,
\* and every thread that enters forward_request leaves it with a response:
\* an upstream status, 502 or 503.
DispatchTerminates ==
  /\ []DispatchBounded
  /\ \A p \in Procs :
       pc[p] = "forward" ~> (pc[p] = "metrics" /\ resp[p] \in Statuses)

\* A dispatch has called client.request N * (RETRIES + 1) times, every call
\* failing, while the other thread is inside forward_request too.
EveryCallFailed ==
  \E p \in Procs : \E q \in Procs \ {p} :
    /\ Dispatching(p)
    /\ pc[p] = "metrics"
    /\ resp[p] = 502
    /\ frame[p].calls = Len(config[req[p].service]) * (RETRIES + 1)
    /\ Len(config[req[p].service]) = 2
    /\ Dispatching(q)
    /\ pc[q] \in {"forward", "call", "request", "sleep"}

====
